---- MODULE Spec2Model ----
(***************************************************************************)
(* Model of the retrieval-augmented answering core of InfoGaiter           *)
(* (src/functions.py, src/config.py): the chunker, the generation client,  *)
(* the TF-IDF ranker, the optional re-ranker and the two pipeline          *)
(* operations.                                                             *)
(***************************************************************************)
EXTENDS Integers, Sequences, FiniteSets, TLC

VARIABLES
    \* chunk_text(text, max_words)
    ct_text, ct_max, ct_result, ct_pc,
    \* the generation client: configuration, the cached client, one call of
    \* _chat_complete(messages) and the calls it makes to the service
    groq_key, groq_sdk, _groq_client,
    messages, chat_pc, chat_i, last_error, chat_calls, chat_ret,
    \* the corpus and the query; one call of _tfidf_best_pdf_and_chunks, and
    \* the document and score an earlier call returned on the corpus without the document extra
    question, files, pdf_names, rank_i, best_pdf, best_score, best_chunks,
    rank_pc, rank_ret, run, extra, first_best,
    \* one call of _api_ninjas_refine and the outcomes of its requests
    ninjas_key, rf_chunks, rf_i, scored, rf_calls, rf_pc, rf_ret,
    \* one call of answer_question_auto or summarize_on_prompt
    op, pdfs, top_chunks, pipe_pc, pipe_ret

chunkVars == <<ct_text, ct_max, ct_result, ct_pc>>
chatVars == <<groq_key, groq_sdk, _groq_client,
              messages, chat_pc, chat_i, last_error, chat_calls, chat_ret>>
rankVars == <<question, files, pdf_names, rank_i, best_pdf, best_score,
              best_chunks, rank_pc, rank_ret, run, extra, first_best>>
refineVars == <<ninjas_key, rf_chunks, rf_i, scored, rf_calls, rf_pc, rf_ret>>
pipeVars == <<op, pdfs, top_chunks, pipe_pc, pipe_ret>>
vars == <<chunkVars, chatVars, rankVars, refineVars, pipeVars>>

(***************************************************************************)
(* Bounds of the model.                                                    *)
(***************************************************************************)
MaxTextLen == 5
MaxL == 3
MaxTurns == 2
MaxSim == 1
MaxChunks == 4
NumNames == 2
MaxRefine == 3
PipeNames == 2
PipeChunks == 2

(***************************************************************************)
(* Generic helpers on sequences.                                           *)
(***************************************************************************)
SeqsUpTo(S, n) == UNION {[1..k -> S] : k \in 0..n}

RECURSIVE Flatten(_)
Flatten(ss) == IF ss = <<>> THEN <<>> ELSE Head(ss) \o Flatten(Tail(ss))

(***************************************************************************)
(* Chunker: characters, sentences, words.                                  *)
(***************************************************************************)
Whitespace == {" ", "\n"}
Punct == {".", "?"}
Letters == {"a", "b"}
Alphabet == Letters \cup Punct \cup Whitespace

\* str.strip(): drop leading and trailing whitespace
RECURSIVE LStrip(_)
LStrip(t) == IF t # <<>> /\ Head(t) \in Whitespace THEN LStrip(Tail(t)) ELSE t

RECURSIVE RStrip(_)
RStrip(t) ==
    IF t # <<>> /\ t[Len(t)] \in Whitespace
    THEN RStrip(SubSeq(t, 1, Len(t) - 1)) ELSE t

Strip(t) == RStrip(LStrip(t))

\* first index >= i of t that is not whitespace (Len(t)+1 when none)
RECURSIVE SkipWs(_, _)
SkipWs(t, i) ==
    IF i <= Len(t) /\ t[i] \in Whitespace THEN SkipWs(t, i + 1) ELSE i

\* re.split(r"(?<=[\.!?])\s+", t): scan from i, cur is the piece being built
RECURSIVE ReSplit(_, _, _)
ReSplit(t, i, cur) ==
    IF i > Len(t) THEN <<cur>>
    ELSE IF t[i] \in Whitespace /\ i > 1 /\ t[i - 1] \in Punct
         THEN <<cur>> \o ReSplit(t, SkipWs(t, i), <<>>)
         ELSE ReSplit(t, i + 1, Append(cur, t[i]))

_split_into_sentences(t) == ReSplit(Strip(t), 1, <<>>)

\* str.split(): the maximal runs of non-whitespace characters
RECURSIVE SplitWs(_, _, _)
SplitWs(s, i, cur) ==
    IF i > Len(s) THEN (IF cur = <<>> THEN <<>> ELSE <<cur>>)
    ELSE IF s[i] \in Whitespace
         THEN (IF cur = <<>> THEN <<>> ELSE <<cur>>) \o SplitWs(s, i + 1, <<>>)
         ELSE SplitWs(s, i + 1, Append(cur, s[i]))

Words(s) == SplitWs(s, 1, <<>>)

\* " ".join(ws)
RECURSIVE JoinWords(_)
JoinWords(ws) ==
    IF ws = <<>> THEN <<>>
    ELSE IF Len(ws) = 1 THEN ws[1]
    ELSE ws[1] \o <<" ">> \o JoinWords(Tail(ws))

\* a variant that tests the running count alone
OverLimitBefore(wc, n, max_words) == wc > max_words

\* functions.py:101  wc + len(words) > max_words
OverLimit(wc, n, max_words) == wc + n > max_words

\* a variant that closes a chunk without its last word
CloseChunkShort(chunks, current) ==
    IF current # <<>>
    THEN Append(chunks, JoinWords(SubSeq(current, 1, Len(current) - 1)))
    ELSE chunks

\* functions.py:102-103 and 108-109  if current: chunks.append(" ".join(current))
CloseChunk(chunks, current) ==
    IF current # <<>> THEN Append(chunks, JoinWords(current)) ELSE chunks

\* the loop of chunk_text over the sentences from index i
RECURSIVE ChunkLoop(_, _, _, _, _, _)
ChunkLoop(sentences, i, chunks, current, wc, max_words) ==
    IF i > Len(sentences) THEN CloseChunk(chunks, current)
    ELSE LET words == Words(sentences[i]) IN
         IF words = <<>>
         THEN ChunkLoop(sentences, i + 1, chunks, current, wc, max_words)
         ELSE IF OverLimit(wc, Len(words), max_words)
              THEN ChunkLoop(sentences, i + 1, CloseChunk(chunks, current),
                             words, Len(words), max_words)
              ELSE ChunkLoop(sentences, i + 1, chunks, current \o words,
                             wc + Len(words), max_words)

chunk_text(t, max_words) ==
    ChunkLoop(_split_into_sentences(t), 1, <<>>, <<>>, 0, max_words)

Texts == SeqsUpTo(Alphabet, MaxTextLen)

ChunkIdle ==
    /\ ct_text = <<>>
    /\ ct_max = 1
    /\ ct_result = <<>>
    /\ ct_pc = "idle"

ChunkStart ==
    /\ ct_text \in Texts
    /\ ct_max \in 1..MaxL
    /\ ct_result = <<>>
    /\ ct_pc = "call"

CallChunkText ==
    /\ ct_pc = "call"
    /\ ct_result' = chunk_text(ct_text, ct_max)
    /\ ct_pc' = "done"
    /\ UNCHANGED <<ct_text, ct_max>>
    /\ UNCHANGED <<chatVars, rankVars, refineVars, pipeVars>>

(***************************************************************************)
(* Generation client (Groq): _get_client and _chat_complete.               *)
(***************************************************************************)
\* config.py:17-20
MODEL_PRIORITY == <<"llama-3.3-70b-versatile", "llama-3.1-8b-instant">>

\* functions.py:142  the character budget of the fallback text
FallbackChars == 800

GroqPlaceholder == "your_groq_api_key_here"
GroqKeys == {"", GroqPlaceholder, "gsk_live"}

\* a text of n characters
RECURSIVE Str(_)
Str(n) ==
    IF n <= 10 THEN SubSeq("0123456789", 1, n) ELSE Str(n - 10) \o "0123456789"

Contents == {"", Str(3), Str(800), Str(801), Str(1000)}
Roles == {"system", "user"}
Turns == [role : Roles, content : Contents]

\* what one call of client.chat.completions.create can do
Responses == {"r1", "r2"}
ErrorMessages == {"e1", "e2"}
Outcomes ==
    [kind : {"ok"}, content : Responses]
        \cup {[kind |-> "empty"]}
        \cup [kind : {"raise"}, msg : ErrorMessages]

\* functions.py:120-132: the cached client, else a new one when the key is
\* usable and the SDK can be imported, else None
_get_client(cached, key, sdk) ==
    IF cached # "None" THEN cached
    ELSE IF key = "" \/ key = GroqPlaceholder THEN "None"
    ELSE IF sdk THEN "Groq" ELSE "None"

\* a variant that cuts one character early
TruncateEarly(txt) ==
    IF Len(txt) >= FallbackChars
    THEN SubSeq(txt, 1, FallbackChars - 1) \o "..." ELSE txt

\* functions.py:142  txt[:800] + ("..." if len(txt) > 800 else "")
Truncate(txt) ==
    IF Len(txt) > FallbackChars
    THEN SubSeq(txt, 1, FallbackChars) \o "..." ELSE txt

\* functions.py:139-143: the last user turn, scanning from the end
RECURSIVE FallbackFrom(_, _)
FallbackFrom(msgs, i) ==
    IF i = 0 THEN "[No Groq API key configured]"
    ELSE IF msgs[i].role = "user" THEN Truncate(msgs[i].content)
    ELSE FallbackFrom(msgs, i - 1)

Fallback(msgs) == FallbackFrom(msgs, Len(msgs))

\* functions.py:155  f"[LLM error: {last_error}]"
ErrorText(e) == "[LLM error: " \o e \o "]"

\* a variant that keeps the response and goes on to the next model
TryModelKeepGoing(i, err, o) ==
    IF o.kind = "ok"
    THEN [pc |-> "loop", i |-> i + 1, err |-> err, ret |-> o.content]
    ELSE IF o.kind = "raise"
    THEN [pc |-> "loop", i |-> i + 1, err |-> o.msg, ret |-> "None"]
    ELSE [pc |-> "loop", i |-> i + 1, err |-> err, ret |-> "None"]

\* functions.py:147-154: one pass of the loop, for the outcome o of the call
TryModel(i, err, o) ==
    IF o.kind = "ok"
    THEN [pc |-> "done", i |-> i, err |-> err, ret |-> o.content]
    ELSE IF o.kind = "raise"
    THEN [pc |-> "loop", i |-> i + 1, err |-> o.msg, ret |-> "None"]
    ELSE [pc |-> "loop", i |-> i + 1, err |-> err, ret |-> "None"]

ChatIdle ==
    /\ messages = <<>>
    /\ chat_pc = "idle"
    /\ chat_i = 1
    /\ last_error = "None"
    /\ chat_calls = <<>>
    /\ chat_ret = "None"

GroqConfig ==
    /\ groq_key \in GroqKeys
    /\ groq_sdk \in BOOLEAN
    /\ _groq_client \in {"None", _get_client("None", groq_key, groq_sdk)}

ChatStart ==
    /\ GroqConfig
    /\ messages \in SeqsUpTo(Turns, MaxTurns)
    /\ chat_pc = "call"
    /\ chat_i = 1
    /\ last_error = "None"
    /\ chat_calls = <<>>
    /\ chat_ret = "None"

\* functions.py:136-145
ChatEnter ==
    /\ chat_pc = "call"
    /\ LET client == _get_client(_groq_client, groq_key, groq_sdk) IN
        /\ _groq_client' = client
        /\ IF client = "None"
           THEN /\ chat_ret' = Fallback(messages)
                /\ chat_pc' = "done"
           ELSE /\ chat_ret' = chat_ret
                /\ chat_pc' = "loop"
    /\ chat_i' = 1
    /\ last_error' = "None"
    /\ UNCHANGED <<groq_key, groq_sdk, messages, chat_calls>>
    /\ UNCHANGED <<chunkVars, rankVars, refineVars, pipeVars>>

\* functions.py:146-154
ChatTryModel ==
    /\ chat_pc = "loop"
    /\ chat_i <= Len(MODEL_PRIORITY)
    /\ \E o \in Outcomes :
        LET r == TryModel(chat_i, last_error, o) IN
        /\ chat_calls' = Append(chat_calls, [model |-> MODEL_PRIORITY[chat_i], outcome |-> o])
        /\ chat_pc' = r.pc
        /\ chat_i' = r.i
        /\ last_error' = r.err
        /\ chat_ret' = r.ret
    /\ UNCHANGED <<groq_key, groq_sdk, _groq_client, messages>>
    /\ UNCHANGED <<chunkVars, rankVars, refineVars, pipeVars>>

\* functions.py:155
ChatExhausted ==
    /\ chat_pc = "loop"
    /\ chat_i > Len(MODEL_PRIORITY)
    /\ chat_ret' = ErrorText(last_error)
    /\ chat_pc' = "done"
    /\ UNCHANGED <<groq_key, groq_sdk, _groq_client, messages, chat_i, last_error, chat_calls>>
    /\ UNCHANGED <<chunkVars, rankVars, refineVars, pipeVars>>

ChatSteps == ChatEnter \/ ChatTryModel \/ ChatExhausted

(***************************************************************************)
(* The corpus: the pdfs folder, discover_pdfs, extraction and chunking of  *)
(* a stored document, and the TF-IDF similarities of its chunks.           *)
(***************************************************************************)
\* config.py:27
TOP_K_CHUNKS_FOR_QA == 3

\* file names of the pdfs folder, in sorted order
PdfNames == <<"a.pdf", "b.pdf", "c.pdf", "d.pdf">>
Stems == <<"a", "b", "c", "d">>
Digits == <<"1", "2", "3", "4", "5", "6">>
NameIndex(name) == CHOOSE d \in 1..Len(PdfNames) : PdfNames[d] = name

\* functions.py:63-68: the sorted list of the names in the folder
RECURSIVE SortedNames(_, _)
SortedNames(folder_, d) ==
    IF d > Len(PdfNames) THEN <<>>
    ELSE (IF PdfNames[d] \in folder_ THEN <<PdfNames[d]>> ELSE <<>>)
             \o SortedNames(folder_, d + 1)

discover_pdfs(folder_) == SortedNames(folder_, 1)

\* A stored document: unreadable, or a PDF whose text chunk_text cuts into
\* Len(sims) chunks. sims[i] is the cosine similarity of chunk i to the query
\* in the document's own TF-IDF space, in scaled units; tok says whether the
\* chunks hold a token of two or more word characters.
Unreadable == [kind |-> "unreadable"]
PdfContents(maxChunks) ==
    {c \in [kind : {"pdf"}, tok : BOOLEAN, sims : SeqsUpTo(0..MaxSim, maxChunks)] :
        /\ ~c.tok => \A i \in 1..Len(c.sims) : c.sims[i] = 0
        /\ c.sims = <<>> => c.tok}
FileContents(maxChunks) == {Unreadable} \cup PdfContents(maxChunks)

\* functions.py:186-187: chunk_text(extract_text_from_pdf_path(path)); an
\* unreadable document yields "" and so no chunk
DocChunks(name, c) ==
    IF c.kind = "unreadable" THEN <<>>
    ELSE [i \in 1..Len(c.sims) |->
            IF c.tok THEN Stems[NameIndex(name)] \o Digits[i]
            ELSE Stems[NameIndex(name)] \o " " \o Digits[i]]

\* TfidfVectorizer's default token pattern \b\w\w+\b
WordChars == {"a", "b", "c", "d", "e", "f", "s", "1", "2", "3", "4", "5", "6"}
HasToken(s) ==
    \E i \in 1..(Len(s) - 1) :
        SubSeq(s, i, i) \in WordChars /\ SubSeq(s, i + 1, i + 1) \in WordChars

\* functions.py:190: TfidfVectorizer().fit raises ValueError on an empty vocabulary
EmptyVocabulary(query, chunks) ==
    ~HasToken(query) /\ \A i \in 1..Len(chunks) : ~HasToken(chunks[i])

Questions == {"fees", "?"}

\* the contents a folder can hold for a query: no similarity without tokens
ValidFiles(query, fs) ==
    \A d \in DOMAIN fs :
        (fs[d].kind = "pdf" /\ ~HasToken(query)) =>
            \A i \in 1..Len(fs[d].sims) : fs[d].sims[i] = 0

(***************************************************************************)
(* Relevance ranker: _tfidf_best_pdf_and_chunks.                           *)
(***************************************************************************)
Perms(n) == {p \in [1..n -> 1..n] : \A i, j \in 1..n : i # j => p[i] # p[j]}

\* functions.py:192  np.argsort(sims): an ascending order of the indices; the
\* order of equal values is not fixed by the default sort kind
ArgSorts(sims) ==
    {p \in Perms(Len(sims)) :
        \A k \in 1..(Len(sims) - 1) : sims[p[k]] <= sims[p[k + 1]]}

Reverse(s) == [k \in 1..Len(s) |-> s[Len(s) + 1 - k]]
Take(s, n) == IF Len(s) > n THEN SubSeq(s, 1, n) ELSE s

\* functions.py:192  np.argsort(sims)[::-1][:TOP_K_CHUNKS_FOR_QA]
TopIdx(p) == Take(Reverse(p), TOP_K_CHUNKS_FOR_QA)

RECURSIVE SumSeq(_)
SumSeq(s) == IF s = <<>> THEN 0 ELSE Head(s) + SumSeq(Tail(s))

\* functions.py:193-194: the mean of the top scores, as a fraction
AvgScore(sims, top_idx) ==
    IF top_idx = <<>> THEN [num |-> 0, den |-> 1]
    ELSE [num |-> SumSeq([k \in 1..Len(top_idx) |-> sims[top_idx[k]]]),
          den |-> Len(top_idx)]

\* a variant that also replaces the best on an equal score
BetterOrEqual(a, b) == a.num * b.den >= b.num * a.den

\* functions.py:195  avg_score > best_score
Better(a, b) == a.num * b.den > b.num * a.den

\* a variant that replaces the best document and keeps the old best score
UpdateBestKeepScore(best, pdf, avg_score, chunks) ==
    IF Better(avg_score, best.score)
    THEN [pdf |-> pdf, score |-> best.score, chunks |-> chunks]
    ELSE best

\* functions.py:195-196
UpdateBest(best, pdf, avg_score, chunks) ==
    IF Better(avg_score, best.score)
    THEN [pdf |-> pdf, score |-> avg_score, chunks |-> chunks]
    ELSE best

\* functions.py:184  best_score = -1.0
InitialBestScore == [num |-> 0 - 1, den |-> 1]

\* functions.py:197  best_pdf or "", best_chunks, max(best_score, 0.0)
RankResult(pdf, chunks, score) ==
    [pdf |-> IF pdf = "None" THEN "" ELSE pdf,
     chunks |-> chunks,
     score |-> IF score.num < 0 THEN [num |-> 0, den |-> 1] ELSE score]

RankIdle ==
    /\ pdf_names = <<>>
    /\ rank_i = 1
    /\ best_pdf = "None"
    /\ best_score = InitialBestScore
    /\ best_chunks = <<>>
    /\ rank_pc = "idle"
    /\ rank_ret = RankResult("None", <<>>, InitialBestScore)

NoRerun ==
    /\ run = 1
    /\ extra = "None"
    /\ first_best = [pdf |-> "", score |-> [num |-> 0, den |-> 1]]

\* functions.py:185-196: one pass of the loop over pdf_names
RankStep ==
    /\ rank_pc = "loop"
    /\ rank_i <= Len(pdf_names)
    /\ LET pdf == pdf_names[rank_i]
           chunks == DocChunks(pdf, files[pdf])
           sims == files[pdf].sims
       IN IF chunks = <<>>
          THEN /\ rank_i' = rank_i + 1
               /\ UNCHANGED <<best_pdf, best_score, best_chunks, rank_pc>>
          ELSE IF EmptyVocabulary(question, chunks)
          THEN /\ rank_pc' = "raised"
               /\ UNCHANGED <<best_pdf, best_score, best_chunks, rank_i>>
          ELSE \E p \in ArgSorts(sims) :
                LET top_idx == TopIdx(p)
                    avg_score == AvgScore(sims, top_idx)
                    new == UpdateBest([pdf |-> best_pdf, score |-> best_score, chunks |-> best_chunks],
                                      pdf, avg_score,
                                      [k \in 1..Len(top_idx) |-> chunks[top_idx[k]]])
                IN /\ best_pdf' = new.pdf
                   /\ best_score' = new.score
                   /\ best_chunks' = new.chunks
                   /\ rank_i' = rank_i + 1
                   /\ rank_pc' = rank_pc
    /\ UNCHANGED <<question, files, pdf_names, rank_ret, run, extra, first_best>>
    /\ UNCHANGED <<chunkVars, chatVars, refineVars, pipeVars>>

\* functions.py:197
RankReturn ==
    /\ rank_pc = "loop"
    /\ rank_i > Len(pdf_names)
    /\ rank_ret' = RankResult(best_pdf, best_chunks, best_score)
    /\ rank_pc' = "done"
    /\ UNCHANGED <<question, files, pdf_names, rank_i, best_pdf, best_score,
                   best_chunks, run, extra, first_best>>
    /\ UNCHANGED <<chunkVars, chatVars, refineVars, pipeVars>>

\* the same query again, on the listing of the folder once the document
\* `extra` has been added to it
SecondRun ==
    /\ rank_pc = "done"
    /\ run = 1
    /\ extra # "None"
    /\ first_best' = [pdf |-> rank_ret.pdf, score |-> rank_ret.score]
    /\ rank_ret' = RankResult("None", <<>>, InitialBestScore)
    /\ run' = 2
    /\ pdf_names' = discover_pdfs({pdf_names[k] : k \in 1..Len(pdf_names)} \cup {extra})
    /\ rank_i' = 1
    /\ best_pdf' = "None"
    /\ best_score' = InitialBestScore
    /\ best_chunks' = <<>>
    /\ rank_pc' = "loop"
    /\ UNCHANGED <<question, files, extra>>
    /\ UNCHANGED <<chunkVars, chatVars, refineVars, pipeVars>>

RankSteps == RankStep \/ RankReturn

(***************************************************************************)
(* Optional re-ranker: _api_ninjas_refine.                                 *)
(***************************************************************************)
NinjasPlaceholder == "your_api_ninjas_key_here"
NinjasKeys == {"", NinjasPlaceholder, "ninjas_live"}

\* what one requests.post to the similarity service can do: an ok response
\* with a similarity (scaled units), a response that is not ok, an exception
\* (timeout, connection error, invalid JSON)
NinjasOutcomes ==
    [kind : {"score"}, sim : 0..MaxSim] \cup {[kind |-> "failure"], [kind |-> "timeout"]}

\* functions.py:209-213
SimOf(o) == IF o.kind = "score" THEN o.sim ELSE 0

\* insert x behind the entries whose key is at least its own
RECURSIVE InsertDesc(_, _)
InsertDesc(sorted, x) ==
    IF sorted = <<>> THEN <<x>>
    ELSE IF Head(sorted).sim >= x.sim
         THEN <<Head(sorted)>> \o InsertDesc(Tail(sorted), x)
         ELSE <<x>> \o sorted

RECURSIVE SortFrom(_, _, _)
SortFrom(s, i, acc) ==
    IF i > Len(s) THEN acc ELSE SortFrom(s, i + 1, InsertDesc(acc, s[i]))

\* a variant: sort ascending by key, then reverse
RECURSIVE InsertAsc(_, _)
InsertAsc(sorted, x) ==
    IF sorted = <<>> THEN <<x>>
    ELSE IF Head(sorted).sim <= x.sim
         THEN <<Head(sorted)>> \o InsertAsc(Tail(sorted), x)
         ELSE <<x>> \o sorted

RECURSIVE SortAscFrom(_, _, _)
SortAscFrom(s, i, acc) ==
    IF i > Len(s) THEN acc ELSE SortAscFrom(s, i + 1, InsertAsc(acc, s[i]))

SortAscReversed(s) ==
    LET a == SortAscFrom(s, 1, <<>>) IN [k \in 1..Len(a) |-> a[Len(a) + 1 - k]]

\* functions.py:215  scored.sort(key=lambda x: x[0], reverse=True): stable
SortScored(s) == SortFrom(s, 1, <<>>)

RefineIdle ==
    /\ rf_chunks = <<>>
    /\ rf_i = 1
    /\ scored = <<>>
    /\ rf_calls = <<>>
    /\ rf_pc = "idle"
    /\ rf_ret = <<>>

RefineTexts == {"x", "y", "z"}

RefineStart ==
    /\ ninjas_key \in NinjasKeys
    /\ rf_chunks \in SeqsUpTo(RefineTexts, MaxRefine)
    /\ rf_i = 1
    /\ scored = <<>>
    /\ rf_calls = <<>>
    /\ rf_pc = "call"
    /\ rf_ret = <<>>

\* functions.py:202-207
RefineEnter ==
    /\ rf_pc = "call"
    /\ IF ninjas_key = "" \/ ninjas_key = NinjasPlaceholder
       THEN /\ rf_ret' = rf_chunks
            /\ rf_pc' = "done"
       ELSE /\ rf_ret' = rf_ret
            /\ rf_pc' = "loop"
    /\ scored' = <<>>
    /\ rf_i' = 1
    /\ UNCHANGED <<ninjas_key, rf_chunks, rf_calls>>
    /\ UNCHANGED <<chunkVars, chatVars, rankVars, pipeVars>>

\* functions.py:208-214
RefineCall ==
    /\ rf_pc = "loop"
    /\ rf_i <= Len(rf_chunks)
    /\ \E o \in NinjasOutcomes :
        /\ rf_calls' = Append(rf_calls, o)
        /\ scored' = Append(scored, [sim |-> SimOf(o), c |-> rf_chunks[rf_i]])
    /\ rf_i' = rf_i + 1
    /\ UNCHANGED <<ninjas_key, rf_chunks, rf_pc, rf_ret>>
    /\ UNCHANGED <<chunkVars, chatVars, rankVars, pipeVars>>

\* functions.py:215-216
RefineSort ==
    /\ rf_pc = "loop"
    /\ rf_i > Len(rf_chunks)
    /\ LET s == SortScored(scored) IN
        /\ scored' = s
        /\ rf_ret' = [k \in 1..Len(s) |-> s[k].c]
    /\ rf_pc' = "done"
    /\ UNCHANGED <<ninjas_key, rf_chunks, rf_i, rf_calls>>
    /\ UNCHANGED <<chunkVars, chatVars, rankVars, pipeVars>>

RefineSteps == RefineEnter \/ RefineCall \/ RefineSort

(***************************************************************************)
(* Pipeline operations: answer_question_auto and summarize_on_prompt.      *)
(***************************************************************************)
\* "\n\n".join(chunks)
RECURSIVE JoinChunks(_)
JoinChunks(cs) ==
    IF cs = <<>> THEN ""
    ELSE IF Len(cs) = 1 THEN cs[1]
    ELSE cs[1] \o "\n\n" \o JoinChunks(Tail(cs))

\* functions.py:231-236
AnswerPrompt(pdf, context, q) ==
    "You are answering a question about the PDF titled '" \o pdf \o "'.\n"
    \o "Use ONLY the context below. If the answer is not present, say so clearly.\n\n"
    \o "Context:\n" \o context \o "\n\nQuestion: " \o q \o "\n"
    \o "Answer concisely and, when helpful, quote short snippets in parentheses."

\* functions.py:256
SummaryPrompt(pdf, context, q) ==
    "Based on the context snippets from the PDF '" \o pdf
    \o "', write a clean summary with short headings, covering the most relevant points to this request: '"
    \o q \o "'.\n\nContext:\n" \o context

\* functions.py:237-240 and 254-257
AnswerMessages(prompt) ==
    <<[role |-> "system", content |-> "You are a precise academic assistant."],
      [role |-> "user", content |-> prompt]>>

SummaryMessages(prompt) ==
    <<[role |-> "system",
       content |-> "You create faithful, high-level summaries of academic/policy PDFs."],
      [role |-> "user", content |-> prompt]>>

NoPdfs == [text |-> "[No PDFs found in the 'pdfs' folder.]", pdf |-> "", score |-> [num |-> 0, den |-> 1]]

NoMatch(o) ==
    [text |-> IF o = "answer"
              THEN "[Could not determine a relevant PDF for this question]"
              ELSE "[Could not find relevant information to summarize. Please try again or refer the website]",
     pdf |-> "", score |-> [num |-> 0, den |-> 1]]

PipeIdle ==
    /\ op = "None"
    /\ pdfs = <<>>
    /\ top_chunks = <<>>
    /\ pipe_pc = "idle"
    /\ pipe_ret = "None"

\* functions.py:221-225 and 246-249
PipeDiscover ==
    /\ pipe_pc = "start"
    /\ LET found == discover_pdfs(DOMAIN files) IN
        /\ pdfs' = found
        /\ IF found = <<>>
           THEN /\ pipe_ret' = NoPdfs
                /\ pipe_pc' = "done"
                /\ UNCHANGED <<pdf_names, rank_pc>>
           ELSE /\ pdf_names' = found
                /\ rank_pc' = "loop"
                /\ pipe_pc' = "rank"
                /\ pipe_ret' = pipe_ret
    /\ rank_i' = 1
    /\ best_pdf' = "None"
    /\ best_score' = InitialBestScore
    /\ best_chunks' = <<>>
    /\ UNCHANGED <<question, files, rank_ret, run, extra, first_best, op, top_chunks>>
    /\ UNCHANGED <<chunkVars, chatVars, refineVars>>

\* the ValueError of the ranker leaves the operation
PipeRankRaised ==
    /\ pipe_pc = "rank"
    /\ rank_pc = "raised"
    /\ pipe_pc' = "raised"
    /\ UNCHANGED <<op, pdfs, top_chunks, pipe_ret>>
    /\ UNCHANGED <<chunkVars, chatVars, refineVars, rankVars>>

\* functions.py:226-227 and 250-251
PipeNoMatch ==
    /\ pipe_pc = "rank"
    /\ rank_pc = "done"
    /\ rank_ret.pdf = ""
    /\ pipe_ret' = NoMatch(op)
    /\ pipe_pc' = "done"
    /\ UNCHANGED <<op, pdfs, top_chunks>>
    /\ UNCHANGED <<chunkVars, chatVars, refineVars, rankVars>>

\* functions.py:229  answer_question_auto hands the chunks to the re-ranker
AnswerRefine ==
    /\ pipe_pc = "rank"
    /\ rank_pc = "done"
    /\ rank_ret.pdf # ""
    /\ op = "answer"
    /\ top_chunks' = rank_ret.chunks
    /\ rf_chunks' = rank_ret.chunks
    /\ rf_pc' = "call"
    /\ pipe_pc' = "refine"
    /\ UNCHANGED <<op, pdfs, pipe_ret, ninjas_key, rf_i, scored, rf_calls, rf_ret>>
    /\ UNCHANGED <<chunkVars, chatVars, rankVars>>

\* functions.py:229-240
AnswerGenerate ==
    /\ pipe_pc = "refine"
    /\ rf_pc = "done"
    /\ top_chunks' = rf_ret
    /\ messages' = AnswerMessages(AnswerPrompt(rank_ret.pdf, JoinChunks(rf_ret), question))
    /\ chat_pc' = "call"
    /\ pipe_pc' = "chat"
    /\ UNCHANGED <<op, pdfs, pipe_ret>>
    /\ UNCHANGED <<groq_key, groq_sdk, _groq_client, chat_i, last_error, chat_calls, chat_ret>>
    /\ UNCHANGED <<chunkVars, refineVars, rankVars>>

\* functions.py:252-257  summarize_on_prompt builds the context from the
\* ranker's chunks
SummarizeGenerate ==
    /\ pipe_pc = "rank"
    /\ rank_pc = "done"
    /\ rank_ret.pdf # ""
    /\ op = "summarize"
    /\ top_chunks' = rank_ret.chunks
    /\ messages' = SummaryMessages(SummaryPrompt(rank_ret.pdf, JoinChunks(rank_ret.chunks), question))
    /\ chat_pc' = "call"
    /\ pipe_pc' = "chat"
    /\ UNCHANGED <<op, pdfs, pipe_ret>>
    /\ UNCHANGED <<groq_key, groq_sdk, _groq_client, chat_i, last_error, chat_calls, chat_ret>>
    /\ UNCHANGED <<chunkVars, refineVars, rankVars>>

\* functions.py:241 and 258
PipeReturn ==
    /\ pipe_pc = "chat"
    /\ chat_pc = "done"
    /\ pipe_ret' = [text |-> chat_ret, pdf |-> rank_ret.pdf, score |-> rank_ret.score]
    /\ pipe_pc' = "done"
    /\ UNCHANGED <<op, pdfs, top_chunks>>
    /\ UNCHANGED <<chunkVars, chatVars, refineVars, rankVars>>

(***************************************************************************)
(* Specifications.                                                         *)
(***************************************************************************)
NameSet(n) == {PdfNames[d] : d \in 1..n}

NoCorpus ==
    /\ question = "fees"
    /\ files = [d \in {} |-> Unreadable]

GroqOff == groq_key = "" /\ groq_sdk = FALSE /\ _groq_client = "None"
NinjasOff == ninjas_key = ""

\* chunk_text on every text and limit within the bounds
InitChunk ==
    /\ ChunkStart
    /\ GroqOff /\ ChatIdle /\ NinjasOff /\ RefineIdle
    /\ NoCorpus /\ RankIdle /\ NoRerun /\ PipeIdle
NextChunk == CallChunkText
SpecChunk == InitChunk /\ [][NextChunk]_vars

\* one call of _chat_complete
InitChat ==
    /\ ChatStart
    /\ ChunkIdle /\ NinjasOff /\ RefineIdle
    /\ NoCorpus /\ RankIdle /\ NoRerun /\ PipeIdle
NextChat == ChatEnter \/ ChatTryModel \/ ChatExhausted
SpecChat == InitChat /\ [][NextChat]_vars

\* one call of _api_ninjas_refine
InitRefine ==
    /\ RefineStart
    /\ ChunkIdle /\ GroqOff /\ ChatIdle
    /\ NoCorpus /\ RankIdle /\ NoRerun /\ PipeIdle
NextRefine == RefineEnter \/ RefineCall \/ RefineSort
SpecRefine == InitRefine /\ [][NextRefine]_vars

\* _tfidf_best_pdf_and_chunks on a corpus, then on the corpus with one more
\* document
InitRank ==
    /\ question \in Questions
    /\ files \in [NameSet(NumNames) -> FileContents(MaxChunks)]
    /\ ValidFiles(question, files)
    /\ extra \in NameSet(NumNames)
    /\ run = 1
    /\ first_best = [pdf |-> "", score |-> [num |-> 0, den |-> 1]]
    /\ pdf_names = discover_pdfs(NameSet(NumNames) \ {extra})
    /\ rank_i = 1
    /\ best_pdf = "None"
    /\ best_score = InitialBestScore
    /\ best_chunks = <<>>
    /\ rank_pc = "loop"
    /\ rank_ret = RankResult("None", <<>>, InitialBestScore)
    /\ ChunkIdle /\ GroqOff /\ ChatIdle /\ NinjasOff /\ RefineIdle /\ PipeIdle
NextRank == RankStep \/ RankReturn \/ SecondRun
SpecRank == InitRank /\ [][NextRank]_vars

\* one call of answer_question_auto or summarize_on_prompt
InitPipe ==
    /\ op \in {"answer", "summarize"}
    /\ question \in Questions
    /\ \E n \in 0..PipeNames : files \in [NameSet(n) -> FileContents(PipeChunks)]
    /\ ValidFiles(question, files)
    /\ pdfs = <<>>
    /\ top_chunks = <<>>
    /\ pipe_pc = "start"
    /\ pipe_ret = "None"
    /\ RankIdle /\ NoRerun
    /\ ninjas_key \in NinjasKeys /\ RefineIdle
    /\ groq_key \in GroqKeys /\ groq_sdk = TRUE /\ _groq_client = "None" /\ ChatIdle
    /\ ChunkIdle
NextPipe ==
    \/ PipeDiscover \/ RankStep \/ RankReturn \/ PipeRankRaised \/ PipeNoMatch
    \/ AnswerRefine \/ RefineEnter \/ RefineCall \/ RefineSort \/ AnswerGenerate
    \/ SummarizeGenerate \/ ChatEnter \/ ChatTryModel \/ ChatExhausted \/ PipeReturn
SpecPipe == InitPipe /\ [][NextPipe]_vars

(***************************************************************************)
(* Chunker claims.                                                         *)
(***************************************************************************)
\* the word lists of the sentences that have words, in order
SentenceWords(t) ==
    LET ss == _split_into_sentences(t)
        ws == [i \in 1..Len(ss) |-> Words(ss[i])]
    IN SelectSeq(ws, LAMBDA w : w # <<>>)

ChunkWords(cs) == [i \in 1..Len(cs) |-> Words(cs[i])]

\* C5: the words of the chunks of chunk_text(T, L), read chunk by chunk in
\* order, are exactly the whitespace-separated words of T: none lost,
\* duplicated or reordered.
C5_WordsPreserved ==
    ct_pc = "done" => Flatten(ChunkWords(ct_result)) = Words(ct_text)

C5_Witness ==
    /\ ct_pc = "done"
    /\ Len(ct_result) >= 2
    /\ Len(Words(ct_text)) >= 3
    /\ \E i \in 1..Len(ct_text) : ct_text[i] = "\n"

\* C6: every chunk of chunk_text(T, L) is a run of whole sentences and has at
\* most L words, unless it is exactly one sentence that alone has more than
\* L words.
C6_ChunkBound ==
    ct_pc = "done" =>
        LET sw == SentenceWords(ct_text) IN
        \A c \in 1..Len(ct_result) :
            \E i \in 1..Len(sw) : \E j \in i..Len(sw) :
                /\ Words(ct_result[c]) = Flatten(SubSeq(sw, i, j))
                /\ \/ Len(Words(ct_result[c])) <= ct_max
                   \/ i = j /\ Len(sw[i]) > ct_max

C6_Witness ==
    /\ ct_pc = "done"
    /\ ct_max = 1
    /\ Len(ct_result) = 2
    /\ Len(Words(ct_result[1])) = 2
    /\ Len(SentenceWords(ct_text)) = 2

(***************************************************************************)
(* Generation client claims.                                               *)
(***************************************************************************)
LastCall == chat_calls[Len(chat_calls)]
HasClient == _groq_client # "None"
NoSuccess == \A j \in 1..Len(chat_calls) : chat_calls[j].outcome.kind # "ok"

\* C1: with a client available, _chat_complete calls the models of
\* MODEL_PRIORITY in list order, one call each, makes no call after a call
\* that returned a non-empty choice, and returns that call's response; it
\* stops early only on such a success.
C1_FirstSuccessWins ==
    /\ Len(chat_calls) <= Len(MODEL_PRIORITY)
    /\ \A j \in 1..Len(chat_calls) : chat_calls[j].model = MODEL_PRIORITY[j]
    /\ \A j \in 1..(Len(chat_calls) - 1) : chat_calls[j].outcome.kind # "ok"
    /\ (chat_calls # <<>> /\ LastCall.outcome.kind = "ok") =>
            chat_pc = "done" /\ chat_ret = LastCall.outcome.content
    /\ (chat_pc = "done" /\ HasClient) =>
            /\ chat_calls # <<>>
            /\ NoSuccess => Len(chat_calls) = Len(MODEL_PRIORITY)

C1_Witness ==
    /\ chat_pc = "done"
    /\ Len(chat_calls) = 2
    /\ chat_calls[1].outcome.kind = "raise"
    /\ chat_calls[2].outcome = [kind |-> "ok", content |-> "r2"]
    /\ chat_ret = "r2"

\* C2: with a client available, when every model of the list was tried
\* without success, the returned text is the error marker carrying the
\* message of the last failure encountered.
C2_LastFailureSurfaced ==
    (chat_pc = "done" /\ HasClient /\ NoSuccess) =>
        /\ chat_ret # ErrorText("None")
        /\ LastCall.outcome.kind = "raise" => chat_ret = ErrorText(LastCall.outcome.msg)

\* C3: with no credential configured, _chat_complete makes no generation
\* call and returns the content of the last user-role turn: unchanged when it
\* has at most 800 characters, otherwise its first 800 characters followed
\* by "...".
C3_FallbackText ==
    (chat_pc = "done" /\ groq_key \in {"", GroqPlaceholder}) =>
        /\ chat_calls = <<>>
        /\ \A k \in 1..Len(messages) :
            (/\ messages[k].role = "user"
             /\ \A j \in (k + 1)..Len(messages) : messages[j].role # "user") =>
                LET txt == messages[k].content IN
                IF Len(txt) <= 800
                THEN chat_ret = txt
                ELSE /\ Len(chat_ret) = 803
                     /\ SubSeq(chat_ret, 1, 800) = SubSeq(txt, 1, 800)
                     /\ SubSeq(chat_ret, 801, 803) = "..."

C3_Witness ==
    /\ chat_pc = "done"
    /\ groq_key = ""
    /\ Len(messages) = 2
    /\ messages[1].role = "user" /\ Len(messages[1].content) = 801
    /\ messages[2].role = "system"
    /\ Len(chat_ret) = 803

(***************************************************************************)
(* Ranker claims.                                                          *)
(***************************************************************************)
\* the aggregate score of a document by its definition: the mean of its
\* min(K, n) largest chunk similarities
TopCount(sims) == IF Len(sims) > TOP_K_CHUNKS_FOR_QA THEN TOP_K_CHUNKS_FOR_QA ELSE Len(sims)
IndexSum(sims, S) == SumSeq([k \in 1..Len(sims) |-> IF k \in S THEN sims[k] ELSE 0])
TopSum(sims) ==
    LET sums == {IndexSum(sims, S) : S \in {T \in SUBSET (1..Len(sims)) : Cardinality(T) = TopCount(sims)}}
    IN CHOOSE m \in sums : \A x \in sums : x <= m
Yields(name) == DocChunks(name, files[name]) # <<>>
Aggregate(name) == [num |-> TopSum(files[name].sims), den |-> TopCount(files[name].sims)]
Less(a, b) == a.num * b.den < b.num * a.den
SameScore(a, b) == a.num * b.den = b.num * a.den
Listed == {pdf_names[k] : k \in 1..Len(pdf_names)}
Before(x, y) == NameIndex(x) < NameIndex(y)

\* C7 as stated: if the ranker selected D on the corpus, then on the corpus
\* with one more document whose chunks all have zero similarity to the query
\* it still selects D, wherever the new document sorts.
C7_Monotone ==
    (/\ run = 2 /\ rank_pc = "done"
     /\ first_best.pdf # ""
     /\ Yields(extra) => \A i \in 1..Len(files[extra].sims) : files[extra].sims[i] = 0)
        => rank_ret.pdf = first_best.pdf

\* C7 as amended: if the ranker selected D with an aggregate score strictly
\* above the aggregate score of the added document (so whenever D's score is
\* positive and the added document is unrelated), the second call returns and
\* still selects D, wherever the new document sorts.
C7_MonotoneStrict ==
    (/\ run = 2
     /\ first_best.pdf # ""
     /\ Yields(extra) => Less(Aggregate(extra), Aggregate(first_best.pdf)))
        => /\ rank_pc # "raised"
           /\ rank_pc = "done" => rank_ret.pdf = first_best.pdf

C7_Witness ==
    /\ run = 2 /\ rank_pc = "done"
    /\ first_best.pdf = "b.pdf"
    /\ extra = "a.pdf"
    /\ Yields("a.pdf")
    /\ Len(files["a.pdf"].sims) = 4
    /\ Less([num |-> 0, den |-> 1], Aggregate("a.pdf"))
    /\ Less(Aggregate("a.pdf"), Aggregate("b.pdf"))
    /\ rank_ret.pdf = "b.pdf"

\* C10: the ranker returns the first document of the list, among those that
\* yield chunks, whose aggregate score (mean of its top-K similarities) is
\* maximal, together with that document's score and top chunks; with no
\* chunk-yielding document it returns "", no chunks and score 0.
C10_FirstMaxWins ==
    rank_pc = "done" =>
        IF \A name \in Listed : ~Yields(name)
        THEN rank_ret = [pdf |-> "", chunks |-> <<>>, score |-> [num |-> 0, den |-> 1]]
        ELSE /\ rank_ret.pdf \in Listed
             /\ Yields(rank_ret.pdf)
             /\ \A name \in Listed :
                    Yields(name) =>
                        /\ ~Less(Aggregate(rank_ret.pdf), Aggregate(name))
                        /\ Before(name, rank_ret.pdf) =>
                                Less(Aggregate(name), Aggregate(rank_ret.pdf))
             /\ SameScore(rank_ret.score, Aggregate(rank_ret.pdf))
             /\ LET sims == files[rank_ret.pdf].sims
                    chunks == DocChunks(rank_ret.pdf, files[rank_ret.pdf])
                IN \E S \in SUBSET (1..Len(sims)) :
                    /\ Cardinality(S) = TopCount(sims)
                    /\ IndexSum(sims, S) = TopSum(sims)
                    /\ Len(rank_ret.chunks) = TopCount(sims)
                    /\ {rank_ret.chunks[k] : k \in 1..Len(rank_ret.chunks)} = {chunks[i] : i \in S}

C10_Witness ==
    /\ run = 2 /\ rank_pc = "done"
    /\ Yields("a.pdf") /\ Yields("b.pdf")
    /\ Len(files["a.pdf"].sims) = 4 /\ Len(files["b.pdf"].sims) = 2
    /\ SameScore(Aggregate("a.pdf"), Aggregate("b.pdf"))
    /\ Less([num |-> 0, den |-> 1], Aggregate("a.pdf"))
    /\ rank_ret.pdf = "a.pdf"

\* the indices of sims by non-increasing similarity, equal similarities in
\* their original order
StableDescending(sims) ==
    CHOOSE p \in Perms(Len(sims)) :
        \A k \in 1..(Len(sims) - 1) :
            \/ sims[p[k]] > sims[p[k + 1]]
            \/ sims[p[k]] = sims[p[k + 1]] /\ p[k] < p[k + 1]

\* C11: the chunks returned for the selected document are its min(K, n)
\* chunks of highest similarity, listed by non-increasing similarity, chunks
\* of equal similarity being selected and listed in their original order
\* (the earlier chunk first).
C11_TiesInDocumentOrder ==
    (rank_pc = "done" /\ rank_ret.pdf # "") =>
        LET sims == files[rank_ret.pdf].sims
            chunks == DocChunks(rank_ret.pdf, files[rank_ret.pdf])
            order == StableDescending(sims)
        IN rank_ret.chunks = [k \in 1..TopCount(sims) |-> chunks[order[k]]]

(***************************************************************************)
(* Re-ranker claims.                                                       *)
(***************************************************************************)
NinjasConfigured == ninjas_key # "" /\ ninjas_key # NinjasPlaceholder
\* the similarity the re-ranker works with for input chunk i
CallSim(i) == IF NinjasConfigured THEN SimOf(rf_calls[i]) ELSE 0

\* C8: _api_ninjas_refine returns the input chunks stably sorted by
\* non-increasing similarity, a failed or unavailable call counting as 0: a
\* permutation of the input, equal to the input when the service is
\* unconfigured or every call fails; it makes one request per chunk when
\* configured and none otherwise.
C8_StableReorder ==
    rf_pc = "done" =>
        /\ Len(rf_calls) = (IF NinjasConfigured THEN Len(rf_chunks) ELSE 0)
        /\ \E p \in Perms(Len(rf_chunks)) :
            /\ rf_ret = [k \in 1..Len(rf_chunks) |-> rf_chunks[p[k]]]
            /\ \A k \in 1..(Len(rf_chunks) - 1) :
                \/ CallSim(p[k]) > CallSim(p[k + 1])
                \/ CallSim(p[k]) = CallSim(p[k + 1]) /\ p[k] < p[k + 1]
        /\ (\A i \in 1..Len(rf_calls) : rf_calls[i].kind # "score") => rf_ret = rf_chunks

C8_Witness ==
    /\ rf_pc = "done"
    /\ rf_chunks = <<"x", "y", "z">>
    /\ rf_calls = <<[kind |-> "timeout"], [kind |-> "score", sim |-> 1], [kind |-> "score", sim |-> 1]>>
    /\ rf_ret = <<"y", "z", "x">>

(***************************************************************************)
(* Pipeline claims.                                                        *)
(***************************************************************************)
\* C4: answer_question_auto and summarize_on_prompt never let an error
\* escape: whatever fails in the stages they call, they return a triple.
C4_Total == pipe_pc # "raised"

\* C9: in both operations, once the ranker has returned a winning document,
\* the re-ranker is run on the winning chunks and the context of the prompt
\* handed to the generation client is the concatenation of the re-ranker's
\* output.
C9_ReRankedContext ==
    pipe_pc \in {"chat", "done"} /\ rank_pc = "done" /\ rank_ret.pdf # "" =>
        /\ rf_pc = "done"
        /\ rf_chunks = rank_ret.chunks
        /\ messages[2].content =
            (IF op = "answer"
             THEN AnswerPrompt(rank_ret.pdf, JoinChunks(rf_ret), question)
             ELSE SummaryPrompt(rank_ret.pdf, JoinChunks(rf_ret), question))

====
